---- MODULE Spec2Model ----
(***************************************************************************)
(* Model of streamlit_app.py: the lead-collection funnel of the chat       *)
(* assistant "Ayla".  A user text is a sequence of one-character strings,  *)
(* so that the validators and normalizar_campo are computed character by   *)
(* character.  An assistant text is a fixed literal that no code inspects: *)
(* it is kept whole, as a sequence of one element.  The emoji prefix of    *)
(* the error bubble is written "(!)", the check mark of the final message  *)
(* is left out, and the long literals are cut short.                       *)
(***************************************************************************)
EXTENDS Integers, Sequences, FiniteSets, TLC

VARIABLES session_state, store, now, turns, pc, antigo, salvar_lead_log, event

vars == <<session_state, store, now, turns, pc, antigo, salvar_lead_log, event>>

(***************************************************************************)
(* Characters and the str methods the program uses.                        *)
(***************************************************************************)
Whitespace == {" "}

Decimal == {"0", "1", "2", "3", "4", "5", "6", "7", "8", "9"}

\* str.isdigit() is true of the decimal digits and also of digit characters
\* that int() does not parse, such as the superscript two.
IsDigitChar == Decimal \cup {"²"}

LowerOf ==
  [c \in {"A", "B", "C", "D", "E", "F", "G", "H", "I", "J", "K", "L", "M",
          "N", "O", "P", "Q", "R", "S", "T", "U", "V", "W", "X", "Y", "Z", "É"} |->
     CASE c = "A" -> "a" [] c = "B" -> "b" [] c = "C" -> "c" [] c = "D" -> "d"
       [] c = "E" -> "e" [] c = "F" -> "f" [] c = "G" -> "g" [] c = "H" -> "h"
       [] c = "I" -> "i" [] c = "J" -> "j" [] c = "K" -> "k" [] c = "L" -> "l"
       [] c = "M" -> "m" [] c = "N" -> "n" [] c = "O" -> "o" [] c = "P" -> "p"
       [] c = "Q" -> "q" [] c = "R" -> "r" [] c = "S" -> "s" [] c = "T" -> "t"
       [] c = "U" -> "u" [] c = "V" -> "v" [] c = "W" -> "w" [] c = "X" -> "x"
       [] c = "Y" -> "y" [] c = "Z" -> "z" [] c = "É" -> "é"]

\* str.lower()
lower(s) == [i \in 1..Len(s) |-> IF s[i] \in DOMAIN LowerOf THEN LowerOf[s[i]] ELSE s[i]]

\* str.strip()
strip(s) ==
  LET keep == {i \in 1..Len(s) : s[i] \notin Whitespace}
  IN IF keep = {} THEN <<>>
     ELSE LET first == CHOOSE i \in keep : \A j \in keep : i <= j
              last  == CHOOSE i \in keep : \A j \in keep : j <= i
          IN SubSeq(s, first, last)

\* len(str.split()): the number of maximal runs of non-whitespace characters
split_len(s) ==
  Cardinality({i \in 1..Len(s) :
                 /\ s[i] \notin Whitespace
                 /\ (i = 1 \/ s[i - 1] \in Whitespace)})

\* str.isdigit()
isdigit(s) == Len(s) > 0 /\ \A i \in 1..Len(s) : s[i] \in IsDigitChar

\* str.replace("$", r"\$")
RECURSIVE replace_dollar(_)
replace_dollar(s) ==
  IF s = <<>> THEN <<>>
  ELSE (IF Head(s) = "$" THEN <<"\\", "$">> ELSE <<Head(s)>>) \o replace_dollar(Tail(s))

\* int(v) raises ValueError unless v is a non-empty string of decimal digits
int_raises(v) == Len(v) = 0 \/ \E i \in 1..Len(v) : v[i] \notin Decimal

\* str(int(v)) for a string of decimal digits.  Python integers are unbounded,
\* so the value is kept as its digits: the leading zeros go, one digit stays.
str_int(v) ==
  LET nz == {i \in 1..Len(v) : v[i] # "0"}
  IN IF nz = {} THEN <<"0">>
     ELSE SubSeq(v, CHOOSE i \in nz : \A j \in nz : i <= j, Len(v))

(***************************************************************************)
(* The field schema, the validators and the normalizer.                    *)
(***************************************************************************)
KEYS == <<"nome", "telefone", "email", "operacao", "tipo_imovel",
          "metragem", "quartos", "faixa_preco", "urgencia">>

PERGUNTAS ==
  [chave \in {KEYS[i] : i \in 1..Len(KEYS)} |->
     CASE chave = "nome"        -> "Qual é o seu nome completo?"
       [] chave = "telefone"    -> "Informe seu telefone com DDD (11 dígitos, ex: 11987654321):"
       [] chave = "email"       -> "Qual é o seu e-mail?"
       [] chave = "operacao"    -> "Você deseja comprar ou alugar? (Digite 1 para Compra ou 2 para Aluguel)"
       [] chave = "tipo_imovel" -> "Qual tipo de imóvel você procura? (casa, apartamento ou outro)"
       [] chave = "metragem"    -> "Qual a metragem desejada? (apenas números, ex: 80)"
       [] chave = "quartos"     -> "Quantos quartos você deseja? (apenas números)"
       [] chave = "faixa_preco" -> "Qual a faixa de preço que você tem em mente? (responda livremente)"
       [] chave = "urgencia"    -> "Qual é a urgência da sua busca? (alta, média, baixa)"]

\* len(PERGUNTAS)
NumPerguntas == Len(KEYS)

validar_nome(nome) == split_len(nome) >= 2

\* re.fullmatch(r"\d{11}", telefone)
validar_telefone(telefone) ==
  Len(telefone) = 11 /\ \A i \in 1..11 : telefone[i] \in Decimal

\* re.fullmatch(r"[^@\s]+@[^@\s]+\.[^@\s]+", email)
validar_email(email) ==
  /\ \A i \in 1..Len(email) : email[i] \notin Whitespace
  /\ Cardinality({i \in 1..Len(email) : email[i] = "@"}) = 1
  /\ LET at == CHOOSE i \in 1..Len(email) : email[i] = "@"
     IN /\ at > 1
        /\ \E dot \in (at + 2)..(Len(email) - 1) : email[dot] = "."

validar_operacao(op) == strip(op) \in {<<"1">>, <<"2">>}

TiposImovel == {<<"c", "a", "s", "a">>,
                <<"a", "p", "a", "r", "t", "a", "m", "e", "n", "t", "o">>,
                <<"o", "u", "t", "r", "o">>}

validar_tipo_imovel(tipo) == lower(strip(tipo)) \in TiposImovel

validar_numero(valor) == isdigit(strip(valor))

Medias == {<<"m", "e", "d", "i", "a">>, <<"m", "é", "d", "i", "a">>}

validar_urgencia(u) ==
  lower(strip(u)) \in Medias \cup {<<"a", "l", "t", "a">>, <<"b", "a", "i", "x", "a">>}

\* VALIDADORES[chave](valor); faixa_preco has no entry
VALIDADORES(chave, valor) ==
  CASE chave = "nome"        -> validar_nome(valor)
    [] chave = "telefone"    -> validar_telefone(valor)
    [] chave = "email"       -> validar_email(valor)
    [] chave = "operacao"    -> validar_operacao(valor)
    [] chave = "tipo_imovel" -> validar_tipo_imovel(valor)
    [] chave = "metragem"    -> validar_numero(valor)
    [] chave = "quartos"     -> validar_numero(valor)
    [] chave = "urgencia"    -> validar_urgencia(valor)
    [] OTHER                 -> TRUE

\* normalizar_campo raises where int(v) does
normalizar_campo_raises(chave, valor) ==
  chave \in {"metragem", "quartos"} /\ int_raises(strip(valor))

normalizar_campo(chave, valor) ==
  LET v == strip(valor)
  IN CASE chave = "operacao" ->
            IF v = <<"1">> THEN <<"c", "o", "m", "p", "r", "a">>
                           ELSE <<"a", "l", "u", "g", "u", "e", "l">>
       [] chave = "urgencia" ->
            IF lower(v) \in Medias THEN <<"m", "e", "d", "i", "a">> ELSE lower(v)
       [] chave \in {"metragem", "quartos"} -> str_int(v)
       [] OTHER -> v

(***************************************************************************)
(* Texts of the assistant.                                                 *)
(***************************************************************************)
WELCOME_MSG == "Oi! Sou a Ayla. Vamos começar?"

ENTENDI == ":white_check_mark: Entendi!"

msg_final == "Perfeito! Lead completo e salvo"

resposta == "Obrigada! Se quiser, posso anotar mais preferências"

mensagens_erro(chave) ==
  CASE chave = "nome"        -> "(!) Por favor, informe **nome e sobrenome**."
    [] chave = "telefone"    -> "(!) Telefone deve ter **11 dígitos** (DDD + número), ex.: 11987654321."
    [] chave = "email"       -> "(!) Digite um **e-mail válido**, ex.: nome@dominio.com."
    [] chave = "operacao"    -> "(!) Responda com **1** (Compra) ou **2** (Aluguel)."
    [] chave = "tipo_imovel" -> "(!) Escolha entre **casa**, **apartamento** ou **outro**."
    [] chave = "metragem"    -> "(!) Digite **apenas números**, ex.: 80."
    [] chave = "quartos"     -> "(!) Digite **apenas números**, ex.: 2."
    [] chave = "urgencia"    -> "(!) Responda **alta**, **média** ou **baixa**."
    [] OTHER                 -> "(!) A resposta não é válida. Tente novamente."

Assistant(text) == [role |-> "assistant", content |-> <<text>>]

User(text) == [role |-> "user", content |-> text]

(***************************************************************************)
(* Time, in ticks of half a second.                                        *)
(***************************************************************************)
\* datetime.datetime.fromtimestamp(0)
Epoch == 0

\* datetime.timedelta(seconds=1)
MIN_TIME_BETWEEN_REQUESTS == 2

\* a session starts at least one interval after the epoch
StartTime == Epoch + MIN_TIME_BETWEEN_REQUESTS

\* the clock is let run freely up to MaxTime; sleeping may take it further
MaxTime == 3

\* the number of submitted messages over all sessions
MaxTurns == 10

\* the messages of a transcript beyond the greeting, the first question and
\* the three of each stored answer: a rejected answer adds 3 of them, a
\* message after completion 2, a failed run 1
MaxDetour == 3

\* the number of submitted messages in the two-session specification
MaxStoreTurns == 4

(***************************************************************************)
(* The session and the record store.                                       *)
(***************************************************************************)
EmptyLead == [k \in {} |-> <<>>]

\* the state a session has after the initialisation block and after
\* clear_conversation
NewSession ==
  [messages |-> <<>>, lead |-> EmptyLead, step |-> 0,
   prev_question_timestamp |-> Epoch]

\* the file LEADS_PATH before the first write
NoFile == [exists |-> FALSE, readable |-> TRUE, rows |-> <<>>]

\* DataFrame.to_excel(path): the file holds exactly these rows afterwards
to_excel(rows) == [exists |-> TRUE, readable |-> TRUE, rows |-> rows]

\* variant: a file that cannot be read is left as it is
salvar_lead_sem_sobrescrita(lead, file) ==
  IF file.exists
  THEN IF file.readable
       THEN to_excel(Append(file.rows, lead))
       ELSE file
  ELSE to_excel(<<lead>>)

\* salvar_lead run without interruption
salvar_lead(lead, file) ==
  IF file.exists
  THEN IF file.readable
       THEN to_excel(Append(file.rows, lead))
       ELSE to_excel(<<lead>>)
  ELSE to_excel(<<lead>>)

\* st.session_state.lead[chave] = valor
SetItem(lead, chave, valor) ==
  [k \in DOMAIN lead \cup {chave} |-> IF k = chave THEN valor ELSE lead[k]]

(***************************************************************************)
(* One run of the script, as a function of the world it runs in:           *)
(* w.sess is the session state, w.file the store, w.log the records this   *)
(* session has passed to salvar_lead since it was last reset.              *)
(***************************************************************************)
perguntar_proximo_campo(w) ==
  IF w.sess.step < NumPerguntas
  THEN [w EXCEPT !.sess.messages =
                   Append(@, Assistant(PERGUNTAS[KEYS[w.sess.step + 1]]))]
  ELSE [sess |-> [w.sess EXCEPT !.messages = Append(@, Assistant(msg_final))],
        file |-> salvar_lead(w.sess.lead, w.file),
        log  |-> Append(w.log, w.sess.lead)]

\* lines 226-230: greeting and first question when there is no history
Greet(w) ==
  IF Len(w.sess.messages) = 0
  THEN perguntar_proximo_campo(
         [w EXCEPT !.sess.messages = Append(@, Assistant(WELCOME_MSG))])
  ELSE w

\* variant: the rate limiter never sleeps
AfterSleep_sem_espera(prev, t) == t

\* lines 238-242: the time at which the rate limiter lets the run go on
AfterSleep(prev, t) ==
  IF t - prev < MIN_TIME_BETWEEN_REQUESTS
  THEN t + (MIN_TIME_BETWEEN_REQUESTS - (t - prev))
  ELSE t

\* variant: the validators are never consulted
valido_sem_validador(chave, msg) == TRUE

\* lines 254-258
valido(chave, msg) ==
  IF chave = "faixa_preco" THEN TRUE ELSE VALIDADORES(chave, msg)

\* variant: an accepted answer advances the step by two
Advance_passo_duplo(w, chave, msg) ==
  [w EXCEPT !.sess.lead = SetItem(@, chave, normalizar_campo(chave, msg)),
            !.sess.step = @ + 2,
            !.sess.messages = Append(@, Assistant(ENTENDI))]

\* variant: the answer is stored but the step is not advanced
Advance_sem_passo(w, chave, msg) ==
  [w EXCEPT !.sess.lead = SetItem(@, chave, normalizar_campo(chave, msg)),
            !.sess.messages = Append(@, Assistant(ENTENDI))]

\* lines 261-268: store the answer, advance, acknowledge
Advance(w, chave, msg) ==
  [w EXCEPT !.sess.lead = SetItem(@, chave, normalizar_campo(chave, msg)),
            !.sess.step = @ + 1,
            !.sess.messages = Append(@, Assistant(ENTENDI))]

\* variant: the user's bubble replaces the history
Received_substitui(w, user_message, t) ==
  [w EXCEPT !.sess.prev_question_timestamp = t,
            !.sess.messages = <<User(replace_dollar(user_message))>>]

\* lines 235-247: escape, stamp the clock, show the user's bubble
Received(w, user_message, t) ==
  [w EXCEPT !.sess.prev_question_timestamp = t,
            !.sess.messages = Append(@, User(replace_dollar(user_message)))]

\* variant: after the funnel is complete every message runs the completion
\* branch of perguntar_proximo_campo again
ProcessMessage_resalva(w, user_message, t) ==
  LET msg == replace_dollar(user_message)
      w1  == Received(w, user_message, t)
  IN IF w1.sess.step < NumPerguntas
     THEN LET chave == KEYS[w1.sess.step + 1]
          IN IF valido(chave, msg)
             THEN IF normalizar_campo_raises(chave, msg)
                  THEN w1
                  ELSE perguntar_proximo_campo(Advance(w1, chave, msg))
             ELSE [w1 EXCEPT !.sess.messages =
                               @ \o <<Assistant(mensagens_erro(chave)),
                                      Assistant(PERGUNTAS[chave])>>]
     ELSE perguntar_proximo_campo(w1)

\* variant: a rejected answer leaves the rate-limit clock as it was
ProcessMessage_rejeitada_sem_relogio(w, user_message, t) ==
  LET msg == replace_dollar(user_message)
      w1  == Received(w, user_message, t)
  IN IF w1.sess.step < NumPerguntas
     THEN LET chave == KEYS[w1.sess.step + 1]
          IN IF valido(chave, msg)
             THEN IF normalizar_campo_raises(chave, msg)
                  THEN w1
                  ELSE perguntar_proximo_campo(Advance(w1, chave, msg))
             ELSE [w1 EXCEPT !.sess.prev_question_timestamp =
                               w.sess.prev_question_timestamp,
                             !.sess.messages =
                               @ \o <<Assistant(mensagens_erro(chave)),
                                      Assistant(PERGUNTAS[chave])>>]
     ELSE [w1 EXCEPT !.sess.messages = Append(@, Assistant(resposta))]

\* lines 233-300, for the text user_message submitted when the clock shows t
ProcessMessage(w, user_message, t) ==
  LET msg == replace_dollar(user_message)
      w1  == Received(w, user_message, t)
  IN IF w1.sess.step < NumPerguntas
     THEN LET chave == KEYS[w1.sess.step + 1]
          IN IF valido(chave, msg)
             THEN IF normalizar_campo_raises(chave, msg)
                  THEN w1   \* ValueError leaves the run at line 261
                  ELSE perguntar_proximo_campo(Advance(w1, chave, msg))
             ELSE [w1 EXCEPT !.sess.messages =
                               @ \o <<Assistant(mensagens_erro(chave)),
                                      Assistant(PERGUNTAS[chave])>>]
     ELSE [w1 EXCEPT !.sess.messages = Append(@, Assistant(resposta))]

\* the run of the script that handles user_message
RunScript(w, user_message, t) ==
  ProcessMessage(Greet(w), user_message,
                 AfterSleep(w.sess.prev_question_timestamp, t))

(***************************************************************************)
(* The texts a user submits.                                               *)
(***************************************************************************)
AnaSilva == <<"A", "n", "a", " ", "S", "i", "l", "v", "a">>

Telefone11 == <<"1", "1", "9", "8", "7", "6", "5", "4", "3", "2", "1">>

EmailABC == <<"a", "@", "b", ".", "c">>

UmComEspacos == <<" ", "1", " ">>

CasaMaiuscula == <<" ", "C", "a", "s", "a", " ">>

DoisSobrescrito == <<"²">>

MediaAcento == <<"M", "é", "d", "i", "a">>

Preco == <<"$", "5">>

Alta == <<"a", "l", "t", "a">>

Inputs == {AnaSilva, Telefone11, EmailABC, UmComEspacos, CasaMaiuscula,
           DoisSobrescrito, MediaAcento, Preco}

StoreInputs == {Alta, MediaAcento, UmComEspacos}

(***************************************************************************)
(* Actions of one session at a time.                                       *)
(***************************************************************************)
World(s) ==
  [sess |-> session_state[s], file |-> store, log |-> salvar_lead_log[s]]

\* A run of the script with a submitted text: the initial question on the
\* first screen, or the chat input below the history.
ScriptRun(s, user_message) ==
  /\ pc[s] = "idle"
  /\ turns < MaxTurns
  /\ LET w == RunScript(World(s), user_message, now)
     IN /\ Len(w.sess.messages) <= 2 + 3 * w.sess.step + MaxDetour
        /\ session_state' = [session_state EXCEPT ![s] = w.sess]
        /\ store' = w.file
        /\ salvar_lead_log' = [salvar_lead_log EXCEPT ![s] = w.log]
        /\ now' = w.sess.prev_question_timestamp
  /\ turns' = turns + 1
  /\ event' = [op |-> "script_run", session |-> s, user_message |-> user_message]
  /\ UNCHANGED <<pc, antigo>>

\* variant: the record collected so far survives the restart
clear_conversation_mantem_lead(s) ==
  /\ pc[s] = "idle"
  /\ session_state' = [session_state EXCEPT
                         ![s] = [NewSession EXCEPT !.lead = session_state[s].lead]]
  /\ salvar_lead_log' = [salvar_lead_log EXCEPT ![s] = <<>>]
  /\ event' = [op |-> "clear_conversation", session |-> s, user_message |-> <<>>]
  /\ UNCHANGED <<store, now, turns, pc, antigo>>

\* variant: the rate-limit clock survives the restart
clear_conversation_mantem_relogio(s) ==
  /\ pc[s] = "idle"
  /\ session_state' = [session_state EXCEPT
                         ![s] = [NewSession EXCEPT !.prev_question_timestamp =
                                   session_state[s].prev_question_timestamp]]
  /\ salvar_lead_log' = [salvar_lead_log EXCEPT ![s] = <<>>]
  /\ event' = [op |-> "clear_conversation", session |-> s, user_message |-> <<>>]
  /\ UNCHANGED <<store, now, turns, pc, antigo>>

\* The Restart button: on_click=clear_conversation
clear_conversation(s) ==
  /\ pc[s] = "idle"
  /\ session_state' = [session_state EXCEPT ![s] = NewSession]
  /\ salvar_lead_log' = [salvar_lead_log EXCEPT ![s] = <<>>]
  /\ event' = [op |-> "clear_conversation", session |-> s, user_message |-> <<>>]
  /\ UNCHANGED <<store, now, turns, pc, antigo>>

\* Time passes.
Tick ==
  /\ now < MaxTime
  /\ now' = now + 1
  /\ event' = [op |-> "tick", session |-> 0, user_message |-> <<>>]
  /\ UNCHANGED <<session_state, store, turns, pc, antigo, salvar_lead_log>>

\* The spreadsheet is damaged from outside: pd.read_excel will raise.
CorruptStore ==
  /\ store.exists /\ store.readable
  /\ store' = [exists |-> TRUE, readable |-> FALSE, rows |-> <<>>]
  /\ event' = [op |-> "corrupt", session |-> 0, user_message |-> <<>>]
  /\ UNCHANGED <<session_state, now, turns, pc, antigo, salvar_lead_log>>

Init ==
  /\ session_state = [s \in {1} |-> NewSession]
  /\ store = NoFile
  /\ now = StartTime
  /\ turns = 0
  /\ pc = [s \in {1} |-> "idle"]
  /\ antigo = [s \in {1} |-> <<>>]
  /\ salvar_lead_log = [s \in {1} |-> <<>>]
  /\ event = [op |-> "init", session |-> 0, user_message |-> <<>>]

Next ==
  \/ \E s \in DOMAIN session_state : \E m \in Inputs : ScriptRun(s, m)
  \/ \E s \in DOMAIN session_state : clear_conversation(s)
  \/ Tick
  \/ CorruptStore

Spec == Init /\ [][Next]_vars

(***************************************************************************)
(* Two sessions that finish their funnels at the same time.  Each session  *)
(* runs its script in a thread of its own, so the file operations of two   *)
(* salvar_lead calls interleave: os.path.exists, pd.read_excel, to_excel.  *)
(***************************************************************************)
RECURSIVE Replay(_, _, _)
\* the world after the texts are submitted one right after the other
Replay(w, texts, t) ==
  IF texts = <<>> THEN w
  ELSE LET w2 == RunScript(w, Head(texts), t)
       IN Replay(w2, Tail(texts), w2.sess.prev_question_timestamp)

\* the answers each of the two users has already given
FirstEight(s) ==
  <<AnaSilva, Telefone11, EmailABC, UmComEspacos, CasaMaiuscula, Telefone11,
    UmComEspacos, IF s = 1 THEN Preco ELSE AnaSilva>>

Collected(s) ==
  Replay([sess |-> NewSession, file |-> NoFile, log |-> <<>>], FirstEight(s), StartTime)

\* the run reaches the call of salvar_lead at line 215
Completes(w, user_message) ==
  LET msg == replace_dollar(user_message)
  IN /\ w.sess.step = NumPerguntas - 1
     /\ valido(KEYS[NumPerguntas], msg)
     /\ ~normalizar_campo_raises(KEYS[NumPerguntas], msg)

\* A run of the script up to the call of salvar_lead, or to its end when
\* salvar_lead is not called.
BeginRun(s, user_message) ==
  /\ pc[s] = "idle"
  /\ turns < MaxStoreTurns
  /\ LET w0 == Greet(World(s))
         t  == AfterSleep(w0.sess.prev_question_timestamp, now)
     IN IF Completes(w0, user_message)
        THEN LET w1 == Advance(Received(w0, user_message, t),
                               KEYS[NumPerguntas], replace_dollar(user_message))
             IN /\ session_state' = [session_state EXCEPT ![s] = w1.sess]
                /\ salvar_lead_log' =
                     [salvar_lead_log EXCEPT ![s] = Append(@, w1.sess.lead)]
                /\ pc' = [pc EXCEPT ![s] = "salvar_lead"]
                /\ now' = t
                /\ UNCHANGED store
        ELSE LET w == ProcessMessage(w0, user_message, t)
             IN /\ session_state' = [session_state EXCEPT ![s] = w.sess]
                /\ salvar_lead_log' = [salvar_lead_log EXCEPT ![s] = w.log]
                /\ store' = w.file
                /\ now' = t
                /\ UNCHANGED pc
  /\ turns' = turns + 1
  /\ event' = [op |-> "script_run", session |-> s, user_message |-> user_message]
  /\ UNCHANGED antigo

\* line 110: if os.path.exists(path)
OsPathExists(s) ==
  /\ pc[s] = "salvar_lead"
  /\ pc' = [pc EXCEPT ![s] = IF store.exists THEN "read_excel" ELSE "to_excel"]
  /\ antigo' = [antigo EXCEPT ![s] = <<>>]
  /\ event' = [op |-> "exists", session |-> s, user_message |-> <<>>]
  /\ UNCHANGED <<session_state, store, now, turns, salvar_lead_log>>

\* line 113: antigo = pd.read_excel(path); when it raises, the except branch
\* writes the new row alone
ReadExcel(s) ==
  /\ pc[s] = "read_excel"
  /\ antigo' = [antigo EXCEPT ![s] =
                  IF store.exists /\ store.readable THEN store.rows ELSE <<>>]
  /\ pc' = [pc EXCEPT ![s] = "to_excel"]
  /\ event' = [op |-> "read_excel", session |-> s, user_message |-> <<>>]
  /\ UNCHANGED <<session_state, store, now, turns, salvar_lead_log>>

\* lines 114-120 and 216-223: write the rows, then the final message
ToExcel(s) ==
  /\ pc[s] = "to_excel"
  /\ store' = to_excel(Append(antigo[s], session_state[s].lead))
  /\ session_state' = [session_state EXCEPT
                         ![s].messages = Append(@, Assistant(msg_final))]
  /\ pc' = [pc EXCEPT ![s] = "idle"]
  /\ event' = [op |-> "to_excel", session |-> s, user_message |-> <<>>]
  /\ UNCHANGED <<now, turns, antigo, salvar_lead_log>>

InitStore ==
  /\ session_state = [s \in {1, 2} |-> Collected(s).sess]
  /\ store = NoFile
  /\ now = Collected(1).sess.prev_question_timestamp
  /\ turns = 0
  /\ pc = [s \in {1, 2} |-> "idle"]
  /\ antigo = [s \in {1, 2} |-> <<>>]
  /\ salvar_lead_log = [s \in {1, 2} |-> <<>>]
  /\ event = [op |-> "init", session |-> 0, user_message |-> <<>>]

NextStore ==
  \/ \E s \in DOMAIN session_state : \E m \in StoreInputs : BeginRun(s, m)
  \/ \E s \in DOMAIN session_state : OsPathExists(s)
  \/ \E s \in DOMAIN session_state : ReadExcel(s)
  \/ \E s \in DOMAIN session_state : ToExcel(s)

SpecStore == InitStore /\ [][NextStore]_vars

(***************************************************************************)
(* The first screen: the initial question and the suggestion pills.        *)
(***************************************************************************)
\* the pills, named by the words of their labels (colour and icon left out)
SuggestionLabels ==
  {"Quero comprar", "Quero alugar", "Apartamento 2 quartos", "Casa com quintal", "Até 300 mil"}

\* the text each pill stands for
SUGGESTIONS ==
     ("Quero comprar" :>
        <<"Q", "u", "e", "r", "o", " ", "c", "o", "m", "p", "r", "a", "r",
          " ", "u", "m", " ", "i", "m", "ó", "v", "e", "l", ".">>)
  @@ ("Quero alugar" :>
        <<"Q", "u", "e", "r", "o", " ", "a", "l", "u", "g", "a", "r", " ",
          "u", "m", " ", "i", "m", "ó", "v", "e", "l", ".">>)
  @@ ("Apartamento 2 quartos" :>
        <<"P", "r", "o", "c", "u", "r", "o", " ", "a", "p", "a", "r", "t",
          "a", "m", "e", "n", "t", "o", " ", "c", "o", "m", " ", "2", " ",
          "q", "u", "a", "r", "t", "o", "s", ".">>)
  @@ ("Casa com quintal" :>
        <<"Q", "u", "e", "r", "o", " ", "u", "m", "a", " ", "c", "a", "s",
          "a", " ", "c", "o", "m", " ", "q", "u", "i", "n", "t", "a", "l",
          ".">>)
  @@ ("Até 300 mil" :>
        <<"M", "e", "u", " ", "o", "r", "ç", "a", "m", "e", "n", "t", "o",
          " ", "é", " ", "a", "t", "é", " ", "3", "0", "0", " ", "m", "i",
          "l", ".">>)

\* st.session_state.selected_suggestion when no pill is selected
NoPill == "None"

\* variant: only the typed initial question counts
FirstMessage_so_digitada(initial_question, selected_suggestion) ==
  initial_question

\* lines 195-202 on the first interaction: the chat input below the history
\* is empty, the initial question is taken, and a selected pill overrides it
FirstMessage(initial_question, selected_suggestion) ==
  IF selected_suggestion # NoPill
  THEN SUGGESTIONS[selected_suggestion]
  ELSE initial_question

\* lines 226-300: the greeting, and the message processing if there is a text
RunScriptIfMessage(w, user_message, t) ==
  IF user_message = <<>> THEN Greet(w) ELSE RunScript(w, user_message, t)

\* the number of submitted messages in the specification of the first screen
MaxFirstTurns == 3

\* the texts typed into the initial question box
FirstTexts == {AnaSilva, UmComEspacos}

\* A run with no history and no text: the first screen is drawn and the
\* script stops at line 186.
InitialScreen(s) ==
  /\ pc[s] = "idle"
  /\ session_state[s].messages = <<>>
  /\ event' = [op |-> "initial_screen", session |-> s, user_message |-> <<>>]
  /\ UNCHANGED <<session_state, store, now, turns, pc, antigo, salvar_lead_log>>

\* The run after the initial question was submitted or a pill was clicked.
FirstInteraction(s, initial_question, selected_suggestion) ==
  /\ pc[s] = "idle"
  /\ turns < MaxFirstTurns
  /\ session_state[s].messages = <<>>
  /\ (initial_question # <<>>) # (selected_suggestion # NoPill)
  /\ LET user_message == FirstMessage(initial_question, selected_suggestion)
         w == RunScriptIfMessage(World(s), user_message, now)
     IN /\ session_state' = [session_state EXCEPT ![s] = w.sess]
        /\ store' = w.file
        /\ salvar_lead_log' = [salvar_lead_log EXCEPT ![s] = w.log]
        /\ now' = IF user_message = <<>>
                  THEN now
                  ELSE w.sess.prev_question_timestamp
        /\ event' = [op |-> "first_interaction", session |-> s,
                     user_message |-> user_message,
                     initial_question |-> initial_question,
                     selected_suggestion |-> selected_suggestion]
  /\ turns' = turns + 1
  /\ UNCHANGED <<pc, antigo>>

\* A run with a text typed into the chat input below the history.
ChatRun(s, user_message) ==
  /\ turns < MaxFirstTurns
  /\ session_state[s].messages # <<>>
  /\ ScriptRun(s, user_message)

NextFirst ==
  \/ \E s \in DOMAIN session_state : InitialScreen(s)
  \/ \E s \in DOMAIN session_state : \E q \in FirstTexts :
       FirstInteraction(s, q, NoPill)
  \/ \E s \in DOMAIN session_state : \E p \in SuggestionLabels :
       FirstInteraction(s, <<>>, p)
  \/ \E s \in DOMAIN session_state : \E m \in Inputs : ChatRun(s, m)
  \/ \E s \in DOMAIN session_state : clear_conversation(s)
  \/ Tick

SpecFirst == Init /\ [][NextFirst]_vars

(***************************************************************************)
(* The nine answers of the round trip.                                     *)
(***************************************************************************)
EmailAna == <<"a", "n", "a", "@", "e", "x", ".", "c", "o", "m">>

Um == <<"1">>

Casa == <<"c", "a", "s", "a">>

Oitenta == <<"8", "0">>

Dois == <<"2">>

Ate300Mil == <<"a", "t", "é", " ", "3", "0", "0", " ", "m", "i", "l">>

RoundTrip ==
  <<AnaSilva, Telefone11, EmailAna, Um, Casa, Oitenta, Dois, Ate300Mil, Alta>>

\* the world after a fresh session was given the nine answers
RoundTripWorld ==
  Replay([sess |-> NewSession, file |-> NoFile, log |-> <<>>], RoundTrip, StartTime)

(***************************************************************************)
(* A session about to finish while the store holds an earlier record.      *)
(***************************************************************************)
\* the number of submitted messages in the specification of the damaged store
MaxCorruptTurns == 4

\* A run with a text typed into the chat input, counted against the bound.
AnswerRun(s, user_message) ==
  /\ turns < MaxCorruptTurns
  /\ ScriptRun(s, user_message)

\* an earlier visitor has completed the funnel; this one has given eight
\* answers
InitCorrupt ==
  /\ session_state = [s \in {1} |-> Collected(1).sess]
  /\ store = RoundTripWorld.file
  /\ now = Collected(1).sess.prev_question_timestamp
  /\ turns = 0
  /\ pc = [s \in {1} |-> "idle"]
  /\ antigo = [s \in {1} |-> <<>>]
  /\ salvar_lead_log = [s \in {1} |-> <<>>]
  /\ event = [op |-> "init", session |-> 0, user_message |-> <<>>]

NextCorrupt ==
  \/ \E s \in DOMAIN session_state : \E m \in Inputs : AnswerRun(s, m)
  \/ \E s \in DOMAIN session_state : clear_conversation(s)
  \/ CorruptStore

SpecCorrupt == InitCorrupt /\ [][NextCorrupt]_vars

(***************************************************************************)
(* Properties.                                                             *)
(***************************************************************************)
Sessions == DOMAIN session_state

AllKeys == {KEYS[i] : i \in 1..NumPerguntas}

\* the step is a run of the script for session s with a submitted text
IsRunOf(s) ==
  /\ turns' = turns + 1
  /\ event'.op = "script_run"
  /\ event'.session = s

\* the step is the Restart callback of session s
IsClearOf(s) ==
  /\ event'.op = "clear_conversation"
  /\ event'.session = s

\* the transcript as it is when the user's bubble is added: a fresh session
\* is greeted and asked the first question before
Greeted(messages) ==
  IF messages = <<>>
  THEN <<Assistant(WELCOME_MSG), Assistant(PERGUNTAS[KEYS[1]])>>
  ELSE messages

\* C1: salvar_lead has been called zero times since the last reset while
\* step < len(PERGUNTAS), and exactly once, with the session's lead holding
\* all nine keys, once step has reached len(PERGUNTAS), whatever messages
\* were submitted since.
C1_SavedExactlyOnce ==
  \A s \in Sessions :
    LET st == session_state[s]
    IN IF st.step < NumPerguntas
       THEN salvar_lead_log[s] = <<>>
       ELSE /\ salvar_lead_log[s] = <<st.lead>>
            /\ DOMAIN st.lead = AllKeys

\* a message was answered after completion, and the record was saved once
C1_Witness ==
  \E s \in Sessions :
    LET st == session_state[s]
    IN /\ st.step = NumPerguntas
       /\ st.messages[Len(st.messages)] = Assistant(resposta)
       /\ Len(salvar_lead_log[s]) = 1
       /\ store.exists

\* C2: a run whose text the validator of the current field (not faixa_preco)
\* rejects leaves step and lead as they were and adds to the transcript the
\* user's text, the field's error text and the field's prompt, in this order
\* and nothing else; and no run changes step unless the current field's
\* validator accepts its text (or the field is faixa_preco).
C2_RejectedAnswer ==
  [][\A s \in Sessions :
       IsRunOf(s) /\ session_state[s].step < NumPerguntas =>
         LET st    == session_state[s]
             st2   == session_state'[s]
             chave == KEYS[st.step + 1]
             raw   == event'.user_message
             rejected == chave # "faixa_preco" /\ ~VALIDADORES(chave, raw)
         IN /\ rejected =>
                 /\ st2.step = st.step
                 /\ st2.lead = st.lead
                 /\ st2.messages = Greeted(st.messages) \o
                      <<User(replace_dollar(raw)),
                        Assistant(mensagens_erro(chave)),
                        Assistant(PERGUNTAS[chave])>>
            /\ st2.step # st.step => ~rejected]_vars

\* a rejected answer was followed by an accepted one for the same field
C2_Witness ==
  \E s \in Sessions :
    LET st == session_state[s]
        n  == Len(st.messages)
    IN /\ st.step = 4
       /\ n >= 6
       /\ st.messages[n - 4] = Assistant(mensagens_erro("operacao"))
       /\ st.messages[n - 3] = Assistant(PERGUNTAS["operacao"])
       /\ st.messages[n - 2].role = "user"
       /\ st.messages[n - 1] = Assistant(ENTENDI)

\* C3: a run whose text the validator of the current field accepts
\* (faixa_preco accepts every text) sets lead[key] to normalizar_campo of the
\* text, keeps the other entries, adds one to step, and adds to the
\* transcript the user's text, the acknowledgement and the next prompt, or
\* the completion message after the last field.
C3_AcceptedAnswer ==
  [][\A s \in Sessions :
       IsRunOf(s) /\ session_state[s].step < NumPerguntas =>
         LET st    == session_state[s]
             st2   == session_state'[s]
             chave == KEYS[st.step + 1]
             raw   == event'.user_message
             accepted == chave = "faixa_preco" \/ VALIDADORES(chave, raw)
         IN accepted =>
              /\ st2.lead = SetItem(st.lead, chave, normalizar_campo(chave, raw))
              /\ st2.step = st.step + 1
              /\ st2.messages = Greeted(st.messages) \o
                   <<User(replace_dollar(raw)),
                     Assistant(ENTENDI),
                     IF st.step + 1 = NumPerguntas
                     THEN Assistant(msg_final)
                     ELSE Assistant(PERGUNTAS[KEYS[st.step + 2]])>>]_vars

\* C4: the keys of lead are exactly the first `step` keys of PERGUNTAS, in
\* every state; and no step other than a reset removes a key.
C4_KeysFollowStep ==
  /\ [](\A s \in Sessions :
          /\ session_state[s].step \in 0..NumPerguntas
          /\ DOMAIN session_state[s].lead =
               {KEYS[i] : i \in 1..session_state[s].step})
  /\ [][\A s \in Sessions :
          ~IsClearOf(s) =>
            DOMAIN session_state[s].lead \subseteq DOMAIN session_state'[s].lead]_vars

\* five answers are stored, after one answer was rejected
C4_Witness ==
  \E s \in Sessions :
    /\ session_state[s].step = 5
    /\ Cardinality(DOMAIN session_state[s].lead) = 5
    /\ Len(session_state[s].messages) = 20

\* C5: every run with a submitted text ends with an assistant message as the
\* last entry of the transcript, after the user's message.
C5_AlwaysAnswered ==
  [][\A s \in Sessions :
       IsRunOf(s) =>
         LET m == session_state'[s].messages
         IN m[Len(m)].role = "assistant"]_vars

\* C6: from a state with step >= len(PERGUNTAS), a run of the script keeps
\* step and lead and adds exactly the user's text and the generic
\* acknowledgement; any other step keeps step, lead and transcript, except
\* clear_conversation, which gives step 0 and an empty lead.
C6_CompleteIsTerminal ==
  [][\A s \in Sessions :
       session_state[s].step >= NumPerguntas =>
         LET st  == session_state[s]
             st2 == session_state'[s]
         IN \/ /\ IsClearOf(s)
               /\ st2.step = 0
               /\ st2.lead = EmptyLead
            \/ /\ IsRunOf(s)
               /\ st2.step = st.step
               /\ st2.lead = st.lead
               /\ st2.messages = st.messages \o
                    <<User(replace_dollar(event'.user_message)),
                      Assistant(resposta)>>
            \/ /\ ~IsClearOf(s) /\ ~IsRunOf(s)
               /\ st2.step = st.step
               /\ st2.lead = st.lead
               /\ st2.messages = st.messages]_vars

\* a completed funnel was restarted and the new funnel got its first answer
C6_Witness ==
  \E s \in Sessions :
    /\ store.exists
    /\ session_state[s].step = 1
    /\ Len(session_state[s].messages) = 5
    /\ salvar_lead_log[s] = <<>>

\* C7: the state right after clear_conversation has step 0, an empty lead,
\* an empty transcript and the clock at the epoch, all four at once.
C7_ResetIsWhole ==
  [][\A s \in Sessions :
       IsClearOf(s) =>
         /\ session_state'[s].step = 0
         /\ session_state'[s].lead = EmptyLead
         /\ session_state'[s].messages = <<>>
         /\ session_state'[s].prev_question_timestamp = Epoch]_vars

\* the Restart button was clicked on a completed funnel
C7_Witness ==
  /\ event.op = "clear_conversation"
  /\ turns = NumPerguntas
  /\ store.exists
  /\ session_state[event.session] = NewSession

\* C8: when both sessions have completed and no salvar_lead call is under
\* way, the store holds the record of each of them.
C8_NoLostAppend ==
  (\A s \in Sessions :
     pc[s] = "idle" /\ session_state[s].step = NumPerguntas)
  => \A s \in Sessions :
       \E i \in 1..Len(store.rows) : store.rows[i] = session_state[s].lead

\* C9: each stored value is the output of normalizar_campo for an accepted
\* answer, and normalizar_campo applied to it returns it unchanged.
C9_NormalizeIdempotent ==
  \A s \in Sessions :
    \A k \in DOMAIN session_state[s].lead :
      normalizar_campo(k, session_state[s].lead[k]) = session_state[s].lead[k]

\* C10: the stored tipo_imovel, when present, is one of "casa",
\* "apartamento", "outro".
C10_TipoLowercased ==
  \A s \in Sessions :
    "tipo_imovel" \in DOMAIN session_state[s].lead =>
      session_state[s].lead["tipo_imovel"] \in TiposImovel

\* the record the round trip is to store
RoundTripRecord ==
  [nome |-> AnaSilva, telefone |-> Telefone11, email |-> EmailAna,
   operacao |-> <<"c", "o", "m", "p", "r", "a">>, tipo_imovel |-> Casa,
   metragem |-> Oitenta, quartos |-> Dois, faixa_preco |-> Ate300Mil,
   urgencia |-> Alta]

\* the texts of the user in a transcript, in order
UserTexts(messages) ==
  LET users == SelectSeq(messages, LAMBDA m : m.role = "user")
  IN [i \in 1..Len(users) |-> users[i].content]

Min(a, b) == IF a <= b THEN a ELSE b

\* the nine given answers end in step 9 with the given record stored
RoundTripHolds ==
  /\ RoundTripWorld.sess.step = NumPerguntas
  /\ RoundTripWorld.sess.lead = RoundTripRecord
  /\ RoundTripWorld.file.rows = <<RoundTripRecord>>
  /\ RoundTripWorld.log = <<RoundTripRecord>>

\* C11: the nine answers of the round trip end in step 9 with the given
\* record handed to the store; and in every session whose first answers (up
\* to nine) are each accepted by the validator of its field, step is the
\* number of these answers and each stored value is normalizar_campo of the
\* answer.
C11_NineAnswers ==
  /\ RoundTripHolds
  /\ \A s \in Sessions :
       LET st == session_state[s]
           U  == UserTexts(st.messages)
           n  == Min(Len(U), NumPerguntas)
       IN (\A i \in 1..n : valido(KEYS[i], U[i])) =>
            /\ st.step = n
            /\ \A i \in 1..n : st.lead[KEYS[i]] = normalizar_campo(KEYS[i], U[i])

\* C12: in a state where the completion branch has run, one more call of
\* perguntar_proximo_campo neither writes to the store nor counts as a call
\* of salvar_lead.
C12_NoSecondSave ==
  \A s \in Sessions :
    session_state[s].step >= NumPerguntas /\ salvar_lead_log[s] # <<>> =>
      /\ perguntar_proximo_campo(World(s)).log = salvar_lead_log[s]
      /\ perguntar_proximo_campo(World(s)).file = store

\* C14: a run that handles a submission stamps the session's clock at least
\* MIN_TIME_BETWEEN_REQUESTS after the stamp of the submission before it: a
\* submission that arrives after elapsed < interval waits at least
\* interval - elapsed, one that arrives later is stamped on arrival.
C14_RateLimit ==
  [][\A s \in Sessions :
       IsRunOf(s) =>
         LET prev    == session_state[s].prev_question_timestamp
             elapsed == now - prev
             stamp   == session_state'[s].prev_question_timestamp
         IN /\ stamp - prev >= MIN_TIME_BETWEEN_REQUESTS
            /\ IF elapsed < MIN_TIME_BETWEEN_REQUESTS
               THEN stamp - now >= MIN_TIME_BETWEEN_REQUESTS - elapsed
               ELSE stamp = now]_vars

\* three submissions, the later ones held back by the rate limiter: the
\* flow of time alone does not take the clock this far
C14_Witness ==
  /\ event.op = "script_run"
  /\ turns = 3
  /\ session_state[1].prev_question_timestamp > MaxTime + 1
  /\ session_state[1].step = 3

\* C16: every run that handles a submitted text leaves
\* prev_question_timestamp at the time the run went on after the rate
\* limiter, which is the current time at the end of the run and not before
\* the time of the submission, whatever becomes of the answer (accepted,
\* rejected, or given after the funnel is complete).
C16_ClockOnEverySubmit ==
  [][\A s \in Sessions :
       IsRunOf(s) =>
         LET prev == session_state[s].prev_question_timestamp
         IN /\ session_state'[s].prev_question_timestamp =
                 (IF now - prev < MIN_TIME_BETWEEN_REQUESTS
                  THEN prev + MIN_TIME_BETWEEN_REQUESTS
                  ELSE now)
            /\ session_state'[s].prev_question_timestamp = now'
            /\ now' >= now]_vars

\* a rejected answer, not the first submission, has just been handled and
\* the clock shows the time of this run
C16_Witness ==
  LET st == session_state[1]
      n  == Len(st.messages)
  IN /\ event.op = "script_run"
     /\ st.step < NumPerguntas
     /\ n >= 2
     /\ st.messages[n - 1] = Assistant(mensagens_erro(KEYS[st.step + 1]))
     /\ st.prev_question_timestamp = now
     /\ st.prev_question_timestamp > StartTime

\* C18: step is always between 0 and the number of questions; a step of the
\* program leaves it alone, adds one to a value below the number of
\* questions, or sets it to 0.
C18_StepInRange ==
  /\ [](\A s \in Sessions : session_state[s].step \in 0..NumPerguntas)
  /\ [][\A s \in Sessions :
          \/ session_state'[s].step = session_state[s].step
          \/ /\ session_state[s].step < NumPerguntas
             /\ session_state'[s].step = session_state[s].step + 1
          \/ session_state'[s].step = 0]_vars

\* the step has reached the number of questions
C18_Witness ==
  LET st == session_state[1]
  IN /\ st.step = NumPerguntas
     /\ st.messages[Len(st.messages)] = Assistant(msg_final)

\* the transcript old is the beginning of the transcript new
IsPrefix(old, new) ==
  /\ Len(old) <= Len(new)
  /\ SubSeq(new, 1, Len(old)) = old

\* C19: clear_conversation empties the transcript; every other step leaves
\* the transcript it found as the beginning of the transcript it leaves.
C19_AppendOnly ==
  [][\A s \in Sessions :
       IF IsClearOf(s)
       THEN session_state'[s].messages = <<>>
       ELSE IsPrefix(session_state[s].messages, session_state'[s].messages)]_vars

\* a transcript that has grown by an accepted and by a rejected answer
C19_Witness ==
  LET st == session_state[1]
  IN /\ event.op = "script_run"
     /\ st.step >= 1
     /\ Len(st.messages) = 2 + 3 * st.step + 3

\* C20: whenever the transcript is not empty and step is below the number of
\* questions, the last entry of the transcript is the assistant's question
\* for the field at index step; and the transcript is not empty when
\* step > 0.
C20_LastIsCurrentPrompt ==
  \A s \in Sessions :
    LET st == session_state[s]
    IN /\ st.messages # <<>> /\ st.step < NumPerguntas =>
            st.messages[Len(st.messages)] = Assistant(PERGUNTAS[KEYS[st.step + 1]])
       /\ st.step > 0 => st.messages # <<>>

\* C13: after any run of the script for a session, with or without a
\* submitted text, the transcript of the session begins with the welcome
\* message and the question for the first field.
C13_WelcomeWithoutInput ==
  \A s \in Sessions :
    /\ event.op \in {"initial_screen", "first_interaction", "script_run"}
    /\ event.session = s
    => /\ Len(session_state[s].messages) >= 2
       /\ session_state[s].messages[1] = Assistant(WELCOME_MSG)
       /\ session_state[s].messages[2] = Assistant(PERGUNTAS[KEYS[1]])

\* the step is the first interaction of session s
IsFirstInteractionOf(s) ==
  /\ turns' = turns + 1
  /\ event'.op = "first_interaction"
  /\ event'.session = s

\* C17: the run of the first interaction appends the welcome, the question
\* for nome and the given text (the text of the pill, or the typed initial
\* question), and treats the text as the answer to nome: an accepted text is
\* stored stripped as nome with step 1 and the question for telefone, a
\* rejected one gets the error for nome and the question again; the text of
\* every pill has at least two words and is accepted.
C17_FirstTextIsNome ==
  [][\A s \in Sessions :
       IsFirstInteractionOf(s) =>
         LET pill == event'.selected_suggestion
             text == IF pill # NoPill
                     THEN SUGGESTIONS[pill]
                     ELSE event'.initial_question
             st   == session_state'[s]
             head == <<Assistant(WELCOME_MSG), Assistant(PERGUNTAS["nome"]),
                       User(replace_dollar(text))>>
         IN /\ IF split_len(replace_dollar(text)) >= 2
               THEN /\ st.step = 1
                    /\ DOMAIN st.lead = {"nome"}
                    /\ st.lead["nome"] = strip(replace_dollar(text))
                    /\ st.messages =
                         head \o <<Assistant(ENTENDI),
                                   Assistant(PERGUNTAS["telefone"])>>
               ELSE /\ st.step = 0
                    /\ st.lead = EmptyLead
                    /\ st.messages =
                         head \o <<Assistant(mensagens_erro("nome")),
                                   Assistant(PERGUNTAS["nome"])>>
            /\ pill # NoPill =>
                 /\ st.step = 1
                 /\ st.lead["nome"] = SUGGESTIONS[pill]]_vars

\* a pill was clicked on the first screen and its text is the stored name
C17_Witness ==
  /\ event.op = "first_interaction"
  /\ event.selected_suggestion = "Até 300 mil"
  /\ session_state[1].step = 1
  /\ session_state[1].lead["nome"] = SUGGESTIONS["Até 300 mil"]
  /\ Len(session_state[1].messages) = 5

\* C15: when the last answer is accepted while the file of the store exists
\* and cannot be read, the run ends with the store holding the new record
\* and nothing else, step at the number of questions, the record passed to
\* salvar_lead once, and the completion message last in the transcript.
C15_CorruptStoreOverwritten ==
  [][\A s \in Sessions :
       /\ IsRunOf(s)
       /\ store.exists /\ ~store.readable
       /\ session_state[s].step = NumPerguntas - 1
       /\ validar_urgencia(replace_dollar(event'.user_message))
       => LET st == session_state'[s]
          IN /\ store' = [exists |-> TRUE, readable |-> TRUE, rows |-> <<st.lead>>]
             /\ st.step = NumPerguntas
             /\ DOMAIN st.lead = AllKeys
             /\ salvar_lead_log'[s] = Append(salvar_lead_log[s], st.lead)
             /\ st.messages[Len(st.messages)] = Assistant(msg_final)]_vars

\* the funnel was completed over a damaged store: the earlier record is gone
\* and the store holds the record of this session alone
C15_Witness ==
  /\ event.op = "script_run"
  /\ session_state[1].step = NumPerguntas
  /\ store = [exists |-> TRUE, readable |-> TRUE,
              rows |-> <<session_state[1].lead>>]
  /\ salvar_lead_log[1] = <<session_state[1].lead>>

====
